---------------------------- MODULE Spec2Model ----------------------------
(***************************************************************************)
(* Quiz session engine of handlers/quiz_handlers.py, with its countdown    *)
(* (update_timer) and the authoring wizard of handlers/admin_handlers.py.  *)
(*                                                                         *)
(* Scheduling model.  The chat handlers (take_quiz, answer_callback,       *)
(* time_up_callback, cancel_quiz) are run by the dispatcher one update at  *)
(* a time, so each of them is one atomic action.  time_up is a job-queue   *)
(* callback: it runs in the job queue's own thread, takes no lock, and     *)
(* its reads of active_sessions and of the session and its final           *)
(* record_answer are therefore separate steps that interleave with the     *)
(* chat handlers and with other jobs.                                      *)
(*                                                                         *)
(* The only state a job writes is session.answers, and the only state a    *)
(* chat handler reads before writing is state that jobs never write, so    *)
(* splitting the chat handlers further would add no behaviour.             *)
(***************************************************************************)
EXTENDS Integers, Sequences, FiniteSets, TLC

(***************************************************************************)
(* Bounds of the model.                                                    *)
(***************************************************************************)
MaxSessions == 2   \* QuizSession objects created in one behaviour
MaxAnswers == 2   \* entries of one session's answers list
MaxIndex == 2   \* largest current_question_index explored
MaxResults == 1   \* rows written by record_quiz_result
MaxJobs == 1   \* time_up jobs the job queue holds at once
MaxEntries == 4   \* entries of the answers lists that are scored
MaxTicks == 1   \* update_timer jobs the job queue holds at once
MaxTimeLimit == 13   \* largest time limit of a question, in seconds
MaxQuestions == 1   \* questions collected by one run of the wizard
MaxWrites == 1   \* calls that write to the quiz store

\* user ids (update.effective_user.id); the model follows one user through
\* several sessions
Users == {1}

\* the options whose button the user presses: the first two of a keyboard
CallbackOptions == 0..1

\* the callback data as lines 209-213 and 306-313 render it
callback_data_one_based(i) == <<"answer", i + 1>>

\* take_quiz, line 153: the callback data of the button of option i
callback_data(i) == <<"answer", i>>

\* what /take is called with: a stored quiz id, an unknown id, or no argument
TakeArgs == {"q1", "q2", "bogus", "none"}

(***************************************************************************)
(* The quiz store (utils.database), read-only here.  correct_option is     *)
(* 0-based, options is the number of options of each question, and         *)
(* negative_marking_factor is in hundredths of a point.  q4 is in the      *)
(* store but is not among TakeArgs.                                        *)
(***************************************************************************)
Quizzes ==
    [ q1 |-> [ id |-> "q1", correct_option |-> <<0>>, options |-> <<2>>,
               negative_marking_factor |-> 25 ],
      q2 |-> [ id |-> "q2", correct_option |-> <<1, 0>>, options |-> <<3, 2>>,
               negative_marking_factor |-> 0 ],
      q4 |-> [ id |-> "q4", correct_option |-> <<0, 1, 0, 1>>,
               options |-> <<2, 2, 2, 2>>,
               negative_marking_factor |-> 25 ] ]

get_quiz(quiz_id) ==
    IF quiz_id \in DOMAIN Quizzes THEN Quizzes[quiz_id] ELSE [ id |-> "" ]

NumQuestions(quiz_id) == Len(Quizzes[quiz_id].correct_option)

VARIABLES
    active_sessions,  \* user_id -> index into sessions, 0 when the key is absent
    sessions,         \* the QuizSession objects created so far
    results,          \* rows handed to record_quiz_result
    jobs,             \* time_up jobs: queued, running, or finished
    last_reply,       \* what the last chat handler told its user
    continue_shown,   \* users whose chat shows a "Continue" button
    ticks,            \* update_timer jobs: queued, running, or finished
    quiz_creation_data,  \* admin_handlers: the dict user_id -> wizard data
    conversation,     \* per user, the states the admin handlers last returned
    store_writes      \* calls of add_quiz and update_question_time_limit

vars == <<active_sessions, sessions, results, jobs, last_reply, continue_shown,
          ticks, quiz_creation_data, conversation, store_writes>>

\* what the handlers of the quiz session never touch
timer_vars == <<ticks>>

admin_vars == <<quiz_creation_data, conversation, store_writes>>

TickIds == 1..MaxTicks

JobIds == 1..MaxJobs

(***************************************************************************)
(* QuizSession (utils.quiz_manager).                                       *)
(* recorded_at and state are history fields: the index each entry was      *)
(* recorded at, and whether the attempt is Active, Completed or Canceled.  *)
(***************************************************************************)
QuizSession(user_id, quiz_id) ==
    [ user_id |-> user_id, quiz |-> quiz_id,
      current_question_index |-> 0,
      answers |-> <<>>, recorded_at |-> <<>>, state |-> "Active" ]

\* 0 stands for None
get_current_question(s) ==
    IF s.current_question_index < NumQuestions(s.quiz)
    THEN s.current_question_index + 1
    ELSE 0

is_quiz_completed(s) == s.current_question_index >= NumQuestions(s.quiz)

IsCorrectDefault(s, selected_option) ==
    /\ get_current_question(s) # 0
    /\ selected_option = Quizzes[s.quiz].correct_option[get_current_question(s)]

record_answer(s, selected_option, is_correct) ==
    [ s EXCEPT
        !.answers = Append(@, [ selected_option |-> selected_option,
                                is_correct |-> is_correct ]),
        !.recorded_at = Append(@, s.current_question_index) ]

\* history: an entry was recorded while s was on question i
Resolved(s, i) == \E k \in 1..Len(s.recorded_at) : s.recorded_at[k] = i

move_to_next_question(s) ==
    [ s EXCEPT !.current_question_index = @ + 1 ]

RECURSIVE ScoreOf(_, _)
ScoreOf(answers, factor) ==
    IF answers = <<>> THEN 0
    ELSE (IF Head(answers).is_correct THEN 100 ELSE 0 - factor)
         + ScoreOf(Tail(answers), factor)

calculate_score(s) ==
    ScoreOf(s.answers, Quizzes[s.quiz].negative_marking_factor)

(***************************************************************************)
(* Initial state: the module has just been imported.                       *)
(***************************************************************************)
Idle(st) ==
    [ st |-> st, user_id |-> 0, question_index |-> 0, session |-> 0,
      superseded |-> FALSE ]

NoReply == [ user_id |-> 0, text |-> "none" ]

Reply(user_id, text) == [ user_id |-> user_id, text |-> text ]

\* users of the admin commands: 1 is in config.ADMIN_USERS, 2 is not
ADMIN_USERS == {1}

Operators == {1, 2}

IdleTick ==
    [ st |-> "free", user_id |-> 0, question_index |-> 0, remaining |-> 0,
      session |-> 0 ]

\* admin_handlers line 30 and an empty job queue
InitElsewhere ==
    /\ ticks = [ t \in TickIds |-> IdleTick ]
    /\ quiz_creation_data = <<>>
    /\ conversation = [ u \in Operators |->
                          [ create |-> "END", edittime |-> "END", import |-> "END" ] ]
    /\ store_writes = <<>>

Elsewhere == UNCHANGED <<timer_vars, admin_vars>>

Init ==
    /\ active_sessions = [ u \in Users |-> 0 ]
    /\ sessions = <<>>
    /\ results = <<>>
    /\ jobs = [ j \in JobIds |-> Idle("free") ]
    /\ last_reply = NoReply
    /\ continue_shown = {}
    /\ InitElsewhere

Registered(u) == active_sessions[u] # 0

SessionOf(u) == sessions[active_sessions[u]]

(***************************************************************************)
(* Reachability of the QuizSession objects.  A session that has left       *)
(* active_sessions can still be held by a running time_up, which reads its *)
(* index and appends to its answers; nothing reads those answers again, so *)
(* they are dropped.  A session that no running job holds either is        *)
(* unreachable and only its history fields are kept.                       *)
(***************************************************************************)
Running(jbs) == { j \in JobIds : jbs[j].st \in {"check", "record"} }

Held(jbs) == { jbs[j].session : j \in Running(jbs) }

Detached(s) == [ s EXCEPT !.answers = <<>>, !.recorded_at = <<>> ]

Freed(s) == [ Detached(s) EXCEPT !.current_question_index = 0, !.quiz = "" ]

Collect(sess, reg, jbs) ==
    [ i \in 1..Len(sess) |->
        IF i \in { reg[u] : u \in DOMAIN reg } THEN sess[i]
        ELSE IF i \in Held(jbs) THEN Detached(sess[i])
        ELSE Freed(sess[i]) ]

(***************************************************************************)
(* History of the deadlines: superseded is set on the queued jobs of a     *)
(* user when the question they were made for is answered or left, or the   *)
(* session is ended.                                                       *)
(***************************************************************************)
\* the deadlines of user u for question i are superseded
Supersede(jbs, u, i) ==
    [ j \in JobIds |->
        IF jbs[j].st = "pending" /\ jbs[j].user_id = u /\ jbs[j].question_index = i
        THEN [ jbs[j] EXCEPT !.superseded = TRUE ]
        ELSE jbs[j] ]

\* the deadlines of user u are superseded
SupersedeAll(jbs, u) ==
    [ j \in JobIds |->
        IF jbs[j].st = "pending" /\ jbs[j].user_id = u
        THEN [ jbs[j] EXCEPT !.superseded = TRUE ]
        ELSE jbs[j] ]

(***************************************************************************)
(* /take                                                                   *)
(***************************************************************************)
\* take_quiz without the check of line 112
take_quiz_unchecked(u, arg) ==
    IF arg = "none"
    THEN /\ last_reply' = Reply(u, "provide_quiz_id")
         /\ UNCHANGED <<active_sessions, sessions, results, jobs, continue_shown>>
    ELSE IF get_quiz(arg).id = ""
    THEN /\ last_reply' = Reply(u, "not_found")
         /\ UNCHANGED <<active_sessions, sessions, results, jobs, continue_shown>>
    ELSE /\ Len(sessions) < MaxSessions
         /\ active_sessions' = [ active_sessions EXCEPT ![u] = Len(sessions) + 1 ]
         /\ sessions' = Collect(Append(sessions, QuizSession(u, arg)),
                                active_sessions', jobs)
         /\ last_reply' = Reply(u, "starting")
         /\ UNCHANGED <<results, jobs, continue_shown>>

\* take_quiz without the check of lines 129-133
take_quiz_unknown(u, arg) ==
    IF Registered(u)
    THEN /\ last_reply' = Reply(u, "already_taking")
         /\ UNCHANGED <<active_sessions, sessions, results, jobs, continue_shown>>
    ELSE IF arg = "none"
    THEN /\ last_reply' = Reply(u, "provide_quiz_id")
         /\ UNCHANGED <<active_sessions, sessions, results, jobs, continue_shown>>
    ELSE /\ Len(sessions) < MaxSessions
         /\ active_sessions' = [ active_sessions EXCEPT ![u] = Len(sessions) + 1 ]
         /\ sessions' = Collect(Append(sessions, QuizSession(u, arg)),
                                active_sessions', jobs)
         /\ last_reply' = Reply(u, "starting")
         /\ UNCHANGED <<results, jobs, continue_shown>>

take_quiz(u, arg) ==
    IF Registered(u)
    THEN /\ last_reply' = Reply(u, "already_taking")
         /\ UNCHANGED <<active_sessions, sessions, results, jobs, continue_shown>>
    ELSE IF arg = "none"
    THEN /\ last_reply' = Reply(u, "provide_quiz_id")
         /\ UNCHANGED <<active_sessions, sessions, results, jobs, continue_shown>>
    ELSE IF get_quiz(arg).id = ""
    THEN /\ last_reply' = Reply(u, "not_found")
         /\ UNCHANGED <<active_sessions, sessions, results, jobs, continue_shown>>
    ELSE /\ Len(sessions) < MaxSessions
         /\ active_sessions' = [ active_sessions EXCEPT ![u] = Len(sessions) + 1 ]
         /\ sessions' = Collect(Append(sessions, QuizSession(u, arg)),
                                active_sessions', jobs)
         /\ last_reply' = Reply(u, "starting")
         /\ UNCHANGED <<results, jobs, continue_shown>>

(***************************************************************************)
(* /cancel                                                                 *)
(***************************************************************************)
\* cancel_quiz without the del of line 634
cancel_quiz_keeping(u) ==
    IF Registered(u)
    THEN /\ sessions' = [ sessions EXCEPT ![active_sessions[u]].state = "Canceled" ]
         /\ jobs' = SupersedeAll(jobs, u)
         /\ last_reply' = Reply(u, "canceled")
         /\ UNCHANGED <<active_sessions, results, continue_shown>>
    ELSE /\ last_reply' = Reply(u, "not_taking")
         /\ UNCHANGED <<active_sessions, sessions, results, jobs, continue_shown>>

\* cancel_quiz emptying the registry at line 634 instead of deleting the
\* entry of its user
cancel_quiz_clearing(u) ==
    IF Registered(u)
    THEN /\ active_sessions' = [ v \in DOMAIN active_sessions |-> 0 ]
         /\ sessions' = Collect(
                [ sessions EXCEPT ![active_sessions[u]].state = "Canceled" ],
                active_sessions', jobs)
         /\ jobs' = SupersedeAll(jobs, u)
         /\ last_reply' = Reply(u, "canceled")
         /\ UNCHANGED <<results, continue_shown>>
    ELSE /\ last_reply' = Reply(u, "not_taking")
         /\ UNCHANGED <<active_sessions, sessions, results, jobs, continue_shown>>

\* cancel_quiz without the membership test of line 633: the del raises
\* KeyError for a user who has no session
cancel_quiz_unguarded(u) ==
    IF Registered(u)
    THEN /\ active_sessions' = [ active_sessions EXCEPT ![u] = 0 ]
         /\ sessions' = Collect(
                [ sessions EXCEPT ![active_sessions[u]].state = "Canceled" ],
                active_sessions', jobs)
         /\ jobs' = SupersedeAll(jobs, u)
         /\ last_reply' = Reply(u, "canceled")
         /\ UNCHANGED <<results, continue_shown>>
    ELSE /\ last_reply' = Reply(u, "raised")
         /\ UNCHANGED <<active_sessions, sessions, results, jobs, continue_shown>>

cancel_quiz(u) ==
    IF Registered(u)
    THEN /\ active_sessions' = [ active_sessions EXCEPT ![u] = 0 ]
         /\ sessions' = Collect(
                [ sessions EXCEPT ![active_sessions[u]].state = "Canceled" ],
                active_sessions', jobs)
         /\ jobs' = SupersedeAll(jobs, u)
         /\ last_reply' = Reply(u, "canceled")
         /\ UNCHANGED <<results, continue_shown>>
    ELSE /\ last_reply' = Reply(u, "not_taking")
         /\ UNCHANGED <<active_sessions, sessions, results, jobs, continue_shown>>

(***************************************************************************)
(* An answer_<n> button was pressed; data is its callback data, which      *)
(* carries the option only, not the question the button was rendered for,  *)
(* and line 265 takes the number after the underscore.  After              *)
(* record_answer the handler raises (question['correct_answer'] on a       *)
(* Question object, and at the latest the undefined name ParseMode), so    *)
(* lines 324-335 are never reached and the index is left where it was.     *)
(* A button can only be pressed in a chat that was sent a keyboard.        *)
(***************************************************************************)
KeyboardSent(u) == \E i \in 1..Len(sessions) : sessions[i].user_id = u

\* answer_callback without the check of lines 257-260: line 262 raises
answer_callback_unchecked(u, data) ==
    /\ KeyboardSent(u)
    /\ IF ~Registered(u)
       THEN /\ last_reply' = Reply(u, "raised")
            /\ UNCHANGED <<active_sessions, sessions, results, jobs, continue_shown>>
       ELSE IF get_current_question(SessionOf(u)) = 0
       THEN /\ last_reply' = Reply(u, "no_longer_active")
            /\ UNCHANGED <<active_sessions, sessions, results, jobs, continue_shown>>
       ELSE /\ Len(SessionOf(u).answers) < MaxAnswers
            /\ sessions' = [ sessions EXCEPT ![active_sessions[u]] =
                   record_answer(@, data[2], IsCorrectDefault(@, data[2])) ]
            /\ jobs' = Supersede(jobs, u, SessionOf(u).current_question_index)
            /\ last_reply' = Reply(u, "raised")
            /\ UNCHANGED <<active_sessions, results, continue_shown>>

\* answer_callback without the test of lines 269-271: a session with no
\* current question records the answer as well
answer_callback_recording_at_end(u, data) ==
    /\ KeyboardSent(u)
    /\ IF ~Registered(u)
       THEN /\ last_reply' = Reply(u, "not_taking")
            /\ UNCHANGED <<active_sessions, sessions, results, jobs, continue_shown>>
       ELSE /\ Len(SessionOf(u).answers) < MaxAnswers
            /\ sessions' = [ sessions EXCEPT ![active_sessions[u]] =
                   record_answer(@, data[2], IsCorrectDefault(@, data[2])) ]
            /\ jobs' = Supersede(jobs, u, SessionOf(u).current_question_index)
            /\ last_reply' = Reply(u, "raised")
            /\ UNCHANGED <<active_sessions, results, continue_shown>>

answer_callback(u, data) ==
    /\ KeyboardSent(u)
    /\ IF ~Registered(u)
       THEN /\ last_reply' = Reply(u, "not_taking")
            /\ UNCHANGED <<active_sessions, sessions, results, jobs, continue_shown>>
       ELSE IF get_current_question(SessionOf(u)) = 0
       THEN /\ last_reply' = Reply(u, "no_longer_active")
            /\ UNCHANGED <<active_sessions, sessions, results, jobs, continue_shown>>
       ELSE /\ Len(SessionOf(u).answers) < MaxAnswers
            /\ sessions' = [ sessions EXCEPT ![active_sessions[u]] =
                   record_answer(@, data[2], IsCorrectDefault(@, data[2])) ]
            /\ jobs' = Supersede(jobs, u, SessionOf(u).current_question_index)
            /\ last_reply' = Reply(u, "raised")
            /\ UNCHANGED <<active_sessions, results, continue_shown>>

(***************************************************************************)
(* utils.database.record_quiz_result.  The row keeps the score computed    *)
(* from the answers argument; attempt is a history field naming the        *)
(* session the row was written for.                                        *)
(***************************************************************************)
record_quiz_result(user_id, quiz_id, score, max_score, answers, attempt) ==
    Append(results, [ user_id |-> user_id, quiz_id |-> quiz_id,
                      score |-> score, max_score |-> max_score,
                      attempt |-> attempt ])

(***************************************************************************)
(* end_quiz(update, context, session): sid is the session object, s its    *)
(* value after the caller's move_to_next_question, delivered is whether    *)
(* the chat layer accepted the result message.                             *)
(***************************************************************************)
\* line 596: score/max_score*100, in hundredths of a percent
Percentage(score, max_score) == (score * 100) \div max_score

\* end_quiz with the number of answers for max_score at line 588
end_quiz_counting_answers(sid, s, delivered) ==
    /\ Len(results) < MaxResults
    /\ results' = record_quiz_result(s.user_id, s.quiz, calculate_score(s),
                                     Len(s.answers), s.answers, sid)
    /\ IF delivered
       THEN /\ active_sessions' = [ active_sessions EXCEPT ![s.user_id] = 0 ]
            /\ sessions' = Collect(
                   [ sessions EXCEPT ![sid] = [ s EXCEPT !.state = "Completed" ] ],
                   active_sessions', jobs)
            /\ last_reply' = Reply(s.user_id, "results")
       ELSE /\ sessions' = [ sessions EXCEPT ![sid] = s ]
            /\ last_reply' = Reply(s.user_id, "raised")
            /\ UNCHANGED active_sessions

\* end_quiz charging the default quarter point per wrong entry at line 587,
\* whatever the factor of the quiz
end_quiz_default_marking(sid, s, delivered) ==
    /\ Len(results) < MaxResults
    /\ results' = record_quiz_result(s.user_id, s.quiz, ScoreOf(s.answers, 25),
                                     NumQuestions(s.quiz), s.answers, sid)
    /\ IF delivered
       THEN /\ active_sessions' = [ active_sessions EXCEPT ![s.user_id] = 0 ]
            /\ sessions' = Collect(
                   [ sessions EXCEPT ![sid] = [ s EXCEPT !.state = "Completed" ] ],
                   active_sessions', jobs)
            /\ last_reply' = Reply(s.user_id, "results")
       ELSE /\ sessions' = [ sessions EXCEPT ![sid] = s ]
            /\ last_reply' = Reply(s.user_id, "raised")
            /\ UNCHANGED active_sessions

end_quiz(sid, s, delivered) ==
    /\ Len(results) < MaxResults
    /\ results' = record_quiz_result(s.user_id, s.quiz, calculate_score(s),
                                     NumQuestions(s.quiz), s.answers, sid)
    /\ IF delivered
       THEN /\ active_sessions' = [ active_sessions EXCEPT ![s.user_id] = 0 ]
            /\ sessions' = Collect(
                   [ sessions EXCEPT ![sid] = [ s EXCEPT !.state = "Completed" ] ],
                   active_sessions', jobs)
            /\ last_reply' = Reply(s.user_id, "results")
       ELSE /\ sessions' = [ sessions EXCEPT ![sid] = s ]
            /\ last_reply' = Reply(s.user_id, "raised")
            /\ UNCHANGED active_sessions

(***************************************************************************)
(* The "Continue" button under a time's-up message was pressed.  The       *)
(* handler does not look at the question index in the callback data.  io   *)
(* says which chat call, if any, fails.                                    *)
(***************************************************************************)
ChatOutcomes == {"ok", "answer_fails", "send_fails"}

time_up_callback(u, io) ==
    /\ u \in continue_shown
    /\ UNCHANGED continue_shown
    /\ IF ~Registered(u)
       THEN /\ last_reply' = Reply(u, "expired")
            /\ UNCHANGED <<active_sessions, sessions, results, jobs>>
       ELSE LET sid == active_sessions[u]
                s   == move_to_next_question(sessions[sid])
            IN /\ sessions[sid].current_question_index < MaxIndex
               /\ jobs' = SupersedeAll(jobs, u)
               /\ IF io = "answer_fails" \/ get_current_question(s) # 0
                  THEN \* query.answer raised, or send_quiz_question was
                       \* called with 3 arguments for its 5 parameters
                       /\ sessions' = [ sessions EXCEPT ![sid] = s ]
                       /\ last_reply' = Reply(u, "raised")
                       /\ UNCHANGED <<active_sessions, results>>
                  ELSE end_quiz(sid, s, io = "ok")

(***************************************************************************)
(* The job queue.  No handler of the module schedules time_up; the jobs    *)
(* come from outside, each with data naming a user and a question index    *)
(* that user's session is or has been on.  A slot is free, holds a job     *)
(* (pending, then check and record while time_up runs), or shows that its  *)
(* last job returned at one of the two guards (skipped).                   *)
(* superseded is a history field: whether, before the job began to run,    *)
(* the question it was made for was resolved or left, or its session was   *)
(* ended.                                                                  *)
(***************************************************************************)
IdleSlots == { j \in JobIds : jobs[j].st \in {"free", "skipped"} }

LowestIdle == CHOOSE j \in IdleSlots : \A k \in IdleSlots : j <= k

ScheduleTimeUp(u, question_index) ==
    /\ Registered(u)
    /\ question_index <= SessionOf(u).current_question_index
    /\ question_index < NumQuestions(SessionOf(u).quiz)
    /\ IdleSlots # {}
    /\ jobs' = [ jobs EXCEPT ![LowestIdle] =
                  [ st |-> "pending", user_id |-> u,
                    question_index |-> question_index,
                    session |-> 0,
                    superseded |->
                        \/ question_index # SessionOf(u).current_question_index
                        \/ Resolved(SessionOf(u), question_index) ] ]
    /\ UNCHANGED <<active_sessions, sessions, results, last_reply, continue_shown>>

\* the job returns or raises
Finish(j, sess, how) ==
    /\ jobs' = [ jobs EXCEPT ![j] = Idle(how) ]
    /\ sessions' = Collect(sess, active_sessions, jobs')
    /\ UNCHANGED <<active_sessions, results, last_reply>>

\* the time's-up message with its "Continue" button, if there is a question
ShowContinue(j, delivered) ==
    IF get_current_question(sessions[jobs[j].session]) # 0 /\ delivered
    THEN continue_shown' = continue_shown \cup {jobs[j].user_id}
    ELSE UNCHANGED continue_shown

\* lines 449-453
TimeUpEnter(j) ==
    /\ jobs[j].st = "pending"
    /\ UNCHANGED continue_shown
    /\ IF ~Registered(jobs[j].user_id)
       THEN Finish(j, sessions, "skipped")
       ELSE /\ jobs' = [ jobs EXCEPT
                  ![j].st = "check",
                  ![j].session = active_sessions[jobs[j].user_id] ]
            /\ UNCHANGED <<active_sessions, sessions, results, last_reply>>

\* TimeUpCheck without the return of lines 456-457
TimeUpCheck_unchecked(j, delivered) ==
    /\ jobs[j].st = "check"
    /\ ShowContinue(j, delivered)
    /\ IF get_current_question(sessions[jobs[j].session]) # 0 /\ ~delivered
       THEN Finish(j, sessions, "free")
       ELSE /\ jobs' = [ jobs EXCEPT ![j].st = "record" ]
            /\ UNCHANGED <<active_sessions, sessions, results, last_reply>>

\* lines 455-457, then the message edit of lines 514-522, which may raise;
\* delivered is whether the chat layer accepted it
TimeUpCheck(j, delivered) ==
    /\ jobs[j].st = "check"
    /\ IF sessions[jobs[j].session].current_question_index # jobs[j].question_index
       THEN /\ Finish(j, sessions, "skipped")
            /\ UNCHANGED continue_shown
       ELSE /\ ShowContinue(j, delivered)
            /\ IF get_current_question(sessions[jobs[j].session]) # 0 /\ ~delivered
               THEN Finish(j, sessions, "free")
               ELSE /\ jobs' = [ jobs EXCEPT ![j].st = "record" ]
                    /\ UNCHANGED <<active_sessions, sessions, results, last_reply>>

\* lines 524-525
TimeUpRecord(j) ==
    /\ jobs[j].st = "record"
    /\ Len(sessions[jobs[j].session].answers) < MaxAnswers
    /\ Finish(j, [ sessions EXCEPT ![jobs[j].session] =
                      record_answer(@, -1, FALSE) ], "free")
    /\ UNCHANGED continue_shown

time_up(j) ==
    \/ TimeUpEnter(j)
    \/ \E delivered \in BOOLEAN : TimeUpCheck(j, delivered)
    \/ TimeUpRecord(j)

Next ==
    \/ /\ \E u \in Users, arg \in TakeArgs : take_quiz(u, arg)
       /\ Elsewhere
    \/ /\ \E u \in Users, i \in CallbackOptions :
               answer_callback(u, callback_data(i))
       /\ Elsewhere
    \/ /\ \E u \in Users, io \in ChatOutcomes : time_up_callback(u, io)
       /\ Elsewhere
    \/ /\ \E u \in Users : cancel_quiz(u)
       /\ Elsewhere
    \/ /\ \E u \in Users, i \in 0..MaxIndex : ScheduleTimeUp(u, i)
       /\ Elsewhere
    \/ /\ \E j \in JobIds : time_up(j)
       /\ Elsewhere

Spec == Init /\ [][Next]_vars

(***************************************************************************)
(* The same handlers with every button of the session's own keyboard.      *)
(* take_quiz renders one button per option of the first question (lines    *)
(* 151-155) in the message it stores as current_message_id; the keyboard   *)
(* stays until a time_up job of the session replaces it by "Continue"      *)
(* (lines 515-522), after which the job appends its no-answer entry.       *)
(***************************************************************************)
KeyboardIntact(u) ==
    /\ Registered(u)
    /\ \A k \in 1..Len(SessionOf(u).answers) :
            SessionOf(u).answers[k].selected_option # -1
    /\ \A j \in JobIds :
            jobs[j].st = "record" => jobs[j].session # active_sessions[u]

Buttons(u) ==
    IF KeyboardIntact(u)
    THEN 0..(Quizzes[SessionOf(u).quiz].options[1] - 1)
    ELSE CallbackOptions

NextButtons ==
    \/ /\ \E u \in Users, arg \in TakeArgs : take_quiz(u, arg)
       /\ Elsewhere
    \/ /\ \E u \in Users : \E i \in Buttons(u) :
               answer_callback(u, callback_data(i))
       /\ Elsewhere
    \/ /\ \E u \in Users, io \in ChatOutcomes : time_up_callback(u, io)
       /\ Elsewhere
    \/ /\ \E u \in Users : cancel_quiz(u)
       /\ Elsewhere
    \/ /\ \E u \in Users, i \in 0..MaxIndex : ScheduleTimeUp(u, i)
       /\ Elsewhere
    \/ /\ \E j \in JobIds : time_up(j)
       /\ Elsewhere

SpecButtons == Init /\ [][NextButtons]_vars

(***************************************************************************)
(* Scoring.  end_quiz is applied to every session it can be handed: on any *)
(* quiz of the store, holding up to MaxEntries entries, and just moved     *)
(* past its last question by "Continue".  The entries are recorded the way *)
(* the handlers record them: an answer by record_answer(selected_option)   *)
(* (line 274), an expiry by record_answer(-1, False) (line 525), entry k   *)
(* at question k while there is one and at the last question after that.   *)
(***************************************************************************)
RECURSIVE Recorded(_, _)
Recorded(s, selected) ==
    IF selected = <<>>
    THEN [ s EXCEPT !.current_question_index = NumQuestions(s.quiz) - 1 ]
    ELSE LET n  == NumQuestions(s.quiz) - 1
             at == [ s EXCEPT !.current_question_index =
                        IF Len(s.answers) < n THEN Len(s.answers) ELSE n ]
         IN Recorded(
                record_answer(at, Head(selected),
                    Head(selected) # -1 /\ IsCorrectDefault(at, Head(selected))),
                Tail(selected))

InitScore ==
    /\ \E u \in Users, q \in DOMAIN Quizzes, n \in 0..MaxEntries :
          \E selected \in [ 1..n -> {-1} \cup CallbackOptions ] :
              /\ active_sessions = [ v \in Users |-> IF v = u THEN 1 ELSE 0 ]
              /\ sessions = << Recorded(QuizSession(u, q), selected) >>
              /\ last_reply = Reply(u, "already_taking")
    /\ results = <<>>
    /\ jobs = [ j \in JobIds |-> Idle("free") ]
    /\ continue_shown = Users
    /\ InitElsewhere

\* lines 541-578 for a session on its last question: the index moves past
\* it and end_quiz is called
Finalize(u, delivered) ==
    /\ Registered(u)
    /\ get_current_question(SessionOf(u)) # 0
    /\ get_current_question(move_to_next_question(SessionOf(u))) = 0
    /\ end_quiz(active_sessions[u], move_to_next_question(SessionOf(u)), delivered)
    /\ UNCHANGED <<jobs, continue_shown>>

NextScore ==
    /\ \E u \in Users, delivered \in BOOLEAN : Finalize(u, delivered)
    /\ Elsewhere

SpecScore == InitScore /\ [][NextScore]_vars

(***************************************************************************)
(* Vocabulary of the properties.                                           *)
(***************************************************************************)
\* entries of s.answers that were recorded while s was on question i
EntriesAt(s, i) == { k \in 1..Len(s.recorded_at) : s.recorded_at[k] = i }

IsExpiry(s, k) == s.answers[k].selected_option = -1

\* the session registered for u, as a handler can observe it
LiveState(u) == IF Registered(u) THEN SessionOf(u) ELSE QuizSession(0, "")

\* a time_up job is between its first read and its return
JobRunningFor(u) ==
    \E j \in JobIds : jobs[j].st \in {"check", "record"} /\ jobs[j].user_id = u

JobArmedFor(u) ==
    \E j \in JobIds :
        /\ jobs[j].st \in {"pending", "check", "record"}
        /\ jobs[j].user_id = u
        /\ jobs[j].question_index = SessionOf(u).current_question_index
        /\ ~jobs[j].superseded

ActiveSessions(u) ==
    { i \in 1..Len(sessions) :
        sessions[i].user_id = u /\ sessions[i].state = "Active" }

RowsOf(sid) == { k \in 1..Len(results) : results[k].attempt = sid }

\* C1: an answer and an expiry for the same question of a session are never
\* both recorded: whichever is processed first wins, the other is a no-op.
C1_RaceRule ==
    \A u \in Users : Registered(u) =>
        \A i \in 0..MaxIndex :
            ~ \E k1, k2 \in EntriesAt(SessionOf(u), i) :
                IsExpiry(SessionOf(u), k1) /\ ~IsExpiry(SessionOf(u), k2)

C3_NoDoubleAdvance ==
    \A u \in Users : Registered(u) =>
        \A i \in 0..MaxIndex :
            (i < SessionOf(u).current_question_index /\ i < NumQuestions(SessionOf(u).quiz))
                => Cardinality(EntriesAt(SessionOf(u), i)) = 1

\* C4: outside a running transition len(answers) = current_question_index.
C4_AnswersMatchIndex ==
    \A u \in Users : (Registered(u) /\ ~JobRunningFor(u)) =>
        Len(SessionOf(u).answers) = SessionOf(u).current_question_index

\* C5: a deadline that was superseded before its job began to run changes
\* no session state when the job runs.
C5_SupersededDeadlineIsNoOp ==
    [][ \A j \in JobIds :
            (jobs[j].superseded /\ jobs'[j].st # jobs[j].st)
                => \A u \in Users : LiveState(u)' = LiveState(u) ]_vars

\* C6: time_up returns without effect when the user has no session (line
\* 450) and when the session is on another question than the job's (line
\* 456): registry, result rows and the registered sessions stay as they are.
C6_ExpireGuardsAreNoOps ==
    [][ \A j \in JobIds :
          /\ ( /\ jobs[j].st = "pending"
               /\ jobs'[j].st # "pending"
               /\ ~Registered(jobs[j].user_id) )
                => /\ jobs'[j].st = "skipped"
                   /\ UNCHANGED <<active_sessions, sessions, results>>
          /\ ( /\ jobs[j].st = "check"
               /\ jobs'[j].st # "check"
               /\ sessions[jobs[j].session].current_question_index
                     # jobs[j].question_index )
                => /\ jobs'[j].st = "skipped"
                   /\ UNCHANGED <<active_sessions, results>>
                   /\ \A u \in Users : LiveState(u)' = LiveState(u) ]_vars

\* a job of the only session ever created returned at the index check: the
\* session had been moved on by "Continue" and is still registered
C6_Witness ==
    /\ Len(sessions) = 1
    /\ Registered(1)
    /\ SessionOf(1).current_question_index > 0
    /\ \E j \in JobIds : jobs[j].st = "skipped"

\* C7: an answer for a question that already has an entry records nothing.
C7_StaleAnswerRejected ==
    \A u \in Users : Registered(u) =>
        \A i \in 0..MaxIndex :
            \A k1, k2 \in EntriesAt(SessionOf(u), i) :
                k1 < k2 => IsExpiry(SessionOf(u), k2)

\* C8: the expiry that records the no-answer entry also advances: the
\* session goes to the next question, or is finalized after the last one.
C8_ExpireAdvances ==
    [][ \A j \in JobIds :
            ( /\ jobs[j].st = "record"
              /\ jobs'[j].st # "record"
              /\ active_sessions[jobs[j].user_id] = jobs[j].session )
                => LET s == sessions[jobs[j].session]
                   IN IF s.current_question_index + 1 >= NumQuestions(s.quiz)
                      THEN /\ active_sessions'[jobs[j].user_id] = 0
                           /\ Len(results') = Len(results) + 1
                      ELSE sessions'[jobs[j].session].current_question_index
                              = s.current_question_index + 1 ]_vars

\* C9: every session on a question has an expiry armed for that question.
C9_DeadlineArmed ==
    \A u \in Users :
        (Registered(u) /\ get_current_question(SessionOf(u)) # 0)
            => JobArmedFor(u)

\* C10: a session whose questions are all resolved is finalized and leaves
\* the registry, and a finalized attempt has exactly one result row.
C10_CompletedIsFinalized ==
    /\ \A u \in Users : (Registered(u) /\ ~JobRunningFor(u)) =>
            \E i \in 0..MaxIndex :
                /\ i < NumQuestions(SessionOf(u).quiz)
                /\ EntriesAt(SessionOf(u), i) = {}
    /\ \A sid \in 1..Len(sessions) :
            /\ Cardinality(RowsOf(sid)) <= 1
            /\ sessions[sid].state = "Completed" => Cardinality(RowsOf(sid)) = 1

\* C11: a session on a one-question quiz is finalized by the single event
\* that records its entry: the step in which the registered session of such
\* a quiz gains an entry (an answer, or the expiry's no-answer) also marks
\* it Completed and takes it out of active_sessions.
C11_SingleQuestionCompletes ==
    [][ \A u \in Users :
            ( /\ Registered(u)
              /\ NumQuestions(SessionOf(u).quiz) = 1
              /\ Len(sessions'[active_sessions[u]].answers)
                    > Len(SessionOf(u).answers) )
                => /\ active_sessions'[u] = 0
                   /\ sessions'[active_sessions[u]].state = "Completed" ]_vars

\* C12: /cancel takes the user's session out of active_sessions and writes
\* no result row; no step of a time_up job writes one either, before or
\* after the cancel; and a row is only ever written for the session that is
\* registered and Active at that moment, never for a cancelled one.
C12_CancelWritesNoResult ==
    [][ /\ \A u \in Users :
              (cancel_quiz(u) /\ Registered(u))
                  => /\ active_sessions'[u] = 0
                     /\ sessions'[active_sessions[u]].state = "Canceled"
                     /\ results' = results
        /\ \A j \in JobIds :
              jobs'[j].st # jobs[j].st => results' = results
        /\ Len(results') > Len(results)
              => LET row == results'[Len(results')]
                 IN /\ active_sessions[row.user_id] = row.attempt
                    /\ sessions[row.attempt].state = "Active" ]_vars

\* the session was cancelled while its time_up job was between the guards
\* and the record: the job has shown "Time's up" and is about to append to
\* the cancelled session, and the result store is empty
C12_Witness ==
    /\ results = <<>>
    /\ ~Registered(1)
    /\ \E j \in JobIds :
          /\ jobs[j].st = "record"
          /\ sessions[jobs[j].session].state = "Canceled"

\* C13: a session that end_quiz has scored is out of active_sessions,
\* whether or not the result message could be delivered: no registered
\* session has a result row.
C13_FinalizedDespiteDeliveryFailure ==
    \A u \in Users :
        Registered(u) => RowsOf(active_sessions[u]) = {}

\* C14: an answer whose option is not one of the options of the current
\* question is rejected: every answer entry of a registered session holds
\* an option of the question it was recorded at.
C14_InvalidOptionRejected ==
    \A u \in Users : Registered(u) =>
        \A k \in 1..Len(SessionOf(u).answers) :
            IsExpiry(SessionOf(u), k)
            \/ SessionOf(u).answers[k].selected_option \in
                 0..(Quizzes[SessionOf(u).quiz].options[
                        SessionOf(u).recorded_at[k] + 1] - 1)

\* C15: /take for a user who has a session is answered "already taking"
\* and leaves registry, sessions, rows and jobs as they were; /take with a
\* stored quiz for a user who has none registers a new QuizSession object:
\* Active, on question 0, with no answers.
C15_TakeQuizRegistersOnce ==
    [][ \A u \in Users, arg \in TakeArgs :
            take_quiz(u, arg) =>
                IF Registered(u)
                THEN /\ last_reply' = Reply(u, "already_taking")
                     /\ UNCHANGED <<active_sessions, sessions, results, jobs,
                                    continue_shown>>
                ELSE get_quiz(arg).id # "" =>
                     /\ active_sessions'[u] = Len(sessions) + 1
                     /\ Len(sessions') = Len(sessions) + 1
                     /\ sessions'[active_sessions'[u]].user_id = u
                     /\ sessions'[active_sessions'[u]].quiz = arg
                     /\ sessions'[active_sessions'[u]].current_question_index = 0
                     /\ sessions'[active_sessions'[u]].answers = <<>>
                     /\ sessions'[active_sessions'[u]].state = "Active" ]_vars

\* /take was refused for a user whose session already holds an entry
C15_Witness ==
    /\ Registered(1)
    /\ Len(SessionOf(1).answers) > 0
    /\ last_reply = Reply(1, "already_taking")

\* C16: /take with no quiz id, or with an id the store does not know, is
\* answered with the rejection and registers nothing: registry, sessions,
\* rows and jobs stay as they were, so the user is still without a session
\* and free to take a quiz; and every session ever created is on a stored
\* quiz.
C16_UnknownQuizRejected ==
    [][ /\ \A u \in Users, arg \in TakeArgs :
              ( /\ take_quiz(u, arg)
                /\ ~Registered(u)
                /\ (arg = "none" \/ get_quiz(arg).id = "") )
                  => /\ last_reply' = Reply(u, IF arg = "none"
                                               THEN "provide_quiz_id"
                                               ELSE "not_found")
                     /\ UNCHANGED <<active_sessions, sessions, results, jobs,
                                    continue_shown>>
        /\ Len(sessions') > Len(sessions)
              => get_quiz(sessions'[Len(sessions')].quiz).id # "" ]_vars

\* an unknown id was refused after an earlier session of the user ended,
\* and a further session can still be created
C16_Witness ==
    /\ ~Registered(1)
    /\ Len(sessions) = 1
    /\ Len(sessions) < MaxSessions
    /\ last_reply = Reply(1, "not_found")

\* C17: for a user without a session, a pressed answer button is answered
\* "You are not currently taking a quiz" and a pressed "Continue" with
\* "This quiz has expired", and a time_up job returns at its first guard
\* without telling the user anything; none of them creates a session,
\* records an entry or writes a row.
C17_NoSessionRejected ==
    [][ \A u \in Users : ~Registered(u) =>
          /\ \A i \in CallbackOptions :
                answer_callback(u, callback_data(i))
                    => /\ last_reply' = Reply(u, "not_taking")
                       /\ UNCHANGED <<active_sessions, sessions, results, jobs,
                                      continue_shown>>
          /\ \A io \in ChatOutcomes :
                time_up_callback(u, io)
                    => /\ last_reply' = Reply(u, "expired")
                       /\ UNCHANGED <<active_sessions, sessions, results, jobs,
                                      continue_shown>>
          /\ \A j \in JobIds :
                (jobs[j].user_id = u /\ TimeUpEnter(j))
                    => /\ jobs'[j].st = "skipped"
                       /\ UNCHANGED <<active_sessions, sessions, results,
                                      last_reply, continue_shown>> ]_vars

\* after /cancel a button of the old keyboard was pressed and a job of the
\* old session came due
C17_Witness ==
    /\ ~Registered(1)
    /\ sessions # <<>>
    /\ last_reply = Reply(1, "not_taking")
    /\ \E j \in JobIds : jobs[j].st = "skipped"

\* C18: the index of a session never exceeds the number of questions of its
\* quiz, and only a Completed session is at that number: every registered
\* session is on one of its questions.
C18_IndexInRange ==
    \A sid \in 1..Len(sessions) :
        sessions[sid].quiz # "" =>
            /\ sessions[sid].current_question_index
                  <= NumQuestions(sessions[sid].quiz)
            /\ sessions[sid].current_question_index
                  = NumQuestions(sessions[sid].quiz)
                  => /\ sessions[sid].state = "Completed"
                     /\ \A u \in Users : active_sessions[u] # sid

CorrectEntries(answers) ==
    { k \in 1..Len(answers) : answers[k].is_correct }

\* the answers [correct, incorrect, no-answer, correct] to the four
\* questions of q4, whose factor is 0.25
ScoringExample == Recorded(QuizSession(1, "q4"), <<0, 0, -1, 1>>).answers

\* C20: the row end_quiz writes holds raw = correct entries minus the
\* quiz's factor for every other entry (incorrect or no-answer) and
\* max = number of questions, and the percentage is raw / max * 100 with
\* no clamping; the example scores 1.5 of 4, 37.5 percent.  Points are in
\* hundredths.
C20_ScoreFormula ==
    /\ [](/\ ScoreOf(ScoringExample, Quizzes["q4"].negative_marking_factor) = 150
          /\ NumQuestions("q4") = 4
          /\ Percentage(150, 4) = 3750)
    /\ [][ Len(results') > Len(results) =>
             \E u \in Users :
                LET s       == SessionOf(u)
                    row     == results'[Len(results')]
                    correct == Cardinality(CorrectEntries(s.answers))
                    raw     == 100 * correct
                               - Quizzes[s.quiz].negative_marking_factor
                                    * (Len(s.answers) - correct)
                IN /\ Registered(u)
                   /\ row.attempt = active_sessions[u]
                   /\ row.score = raw
                   /\ row.max_score = NumQuestions(s.quiz)
                   /\ Percentage(row.score, row.max_score) * row.max_score
                         = 100 * raw ]_vars

\* the example has been scored: its row says 1.5 of 4
C20_Witness ==
    /\ Len(results) = 1
    /\ results[1].quiz_id = "q4"
    /\ results[1].score = 150
    /\ results[1].max_score = 4
    /\ Registered(1)
    /\ SessionOf(1).answers = ScoringExample

\* C21: on a quiz whose negative-marking factor is 0 the row end_quiz
\* writes holds raw score = number of correct entries (in hundredths),
\* incorrect and no-answer entries adding nothing, so the score is never
\* negative, an attempt without one correct entry included.
C21_NoPenaltyAtFactorZero ==
    [][ Len(results') > Len(results) =>
          \E u \in Users :
             LET s   == SessionOf(u)
                 row == results'[Len(results')]
             IN /\ Registered(u)
                /\ row.attempt = active_sessions[u]
                /\ (Quizzes[s.quiz].negative_marking_factor = 0 =>
                      /\ row.score = 100 * Cardinality(CorrectEntries(s.answers))
                      /\ row.score >= 0) ]_vars

\* an attempt at q2 (factor 0) with a wrong answer and an expiry and
\* nothing correct has been scored 0
C21_Witness ==
    /\ Len(results) = 1
    /\ results[1].quiz_id = "q2"
    /\ results[1].score = 0
    /\ Quizzes["q2"].negative_marking_factor = 0
    /\ \E u \in Users :
          /\ Registered(u)
          /\ results[1].attempt = active_sessions[u]
          /\ CorrectEntries(SessionOf(u).answers) = {}
          /\ \E k \in 1..Len(SessionOf(u).answers) :
                SessionOf(u).answers[k].selected_option = -1
          /\ \E k \in 1..Len(SessionOf(u).answers) :
                SessionOf(u).answers[k].selected_option # -1

\* C22: the transitions of one user exclude each other: between the guard
\* check of a time_up job (lines 450 and 456) and its mutation (line 525)
\* no other handler registers, removes or changes the session of the
\* job's user.
C22_PerUserMutualExclusion ==
    [][ \A j \in JobIds :
            ( /\ jobs[j].st \in {"check", "record"}
              /\ jobs'[j] = jobs[j] )
                => /\ Registered(jobs[j].user_id)' = Registered(jobs[j].user_id)
                   /\ LiveState(jobs[j].user_id)' = LiveState(jobs[j].user_id) ]_vars

\* C23: the expiry of a question takes effect once or not at all: the
\* answers of a session never hold two no-answer entries recorded at the
\* same question.
C23_ExpiryAtMostOnce ==
    \A u \in Users : Registered(u) =>
        \A i \in 0..MaxIndex :
            Cardinality({ k \in EntriesAt(SessionOf(u), i) :
                            IsExpiry(SessionOf(u), k) }) <= 1

\* C27: ending a session is idempotent.  /cancel for a user who has no
\* session raises nothing, answers "not taking" and leaves registry,
\* sessions and result rows as they are; "Continue" for such a user
\* changes nothing either; and after any /cancel, and after any end_quiz
\* whose result message was delivered, the user has no registry entry,
\* whether or not a removal came before.
C27_EndingIsIdempotent ==
    [][ \A u \in Users :
          /\ cancel_quiz(u) =>
                /\ ~Registered(u)'
                /\ ~Registered(u) =>
                      /\ last_reply' = Reply(u, "not_taking")
                      /\ UNCHANGED <<active_sessions, sessions, results>>
          /\ (\E io \in ChatOutcomes : time_up_callback(u, io)) =>
                /\ ~Registered(u) =>
                      /\ last_reply' = Reply(u, "expired")
                      /\ UNCHANGED <<active_sessions, sessions, results>>
                /\ (Len(results') > Len(results)
                        /\ last_reply' = Reply(u, "results")) => ~Registered(u)' ]_vars

\* a /cancel was answered "not taking" after the user's attempt had been
\* completed and removed
C27_Witness ==
    /\ ~Registered(1)
    /\ last_reply = Reply(1, "not_taking")
    /\ Len(results) = 1
    /\ results[1].user_id = 1

(***************************************************************************)
(* Two users.  active_sessions is keyed by user id (lines 135-136), every  *)
(* handler indexes it with the id of the user of its update (or of its     *)
(* job's data), and each entry is a QuizSession object of its own.         *)
(* Both users take the two-question quiz q2, and of the chat calls of      *)
(* "Continue" only the result message fails.                               *)
(***************************************************************************)
TwoUsers == {1, 2}

InitTwo ==
    /\ active_sessions = [ u \in TwoUsers |-> 0 ]
    /\ sessions = <<>>
    /\ results = <<>>
    /\ jobs = [ j \in JobIds |-> Idle("free") ]
    /\ last_reply = NoReply
    /\ continue_shown = {}
    /\ InitElsewhere

NextTwo ==
    \/ /\ \E u \in TwoUsers : take_quiz(u, "q2")
       /\ Elsewhere
    \/ /\ \E u \in TwoUsers, i \in CallbackOptions :
               answer_callback(u, callback_data(i))
       /\ Elsewhere
    \/ /\ \E u \in TwoUsers, io \in {"ok", "send_fails"} :
               time_up_callback(u, io)
       /\ Elsewhere
    \/ /\ \E u \in TwoUsers : cancel_quiz(u)
       /\ Elsewhere
    \/ /\ \E u \in TwoUsers, i \in 0..MaxIndex : ScheduleTimeUp(u, i)
       /\ Elsewhere
    \/ /\ \E j \in JobIds : time_up(j)
       /\ Elsewhere

SpecTwo == InitTwo /\ [][NextTwo]_vars

\* C26: the sessions of different users share no mutable state: a start,
\* answer, expiry, "Continue" or cancel of user a leaves the registry
\* entry of every other user b, and the index and answers of b's
\* session, as they were, whatever the two users' events are interleaved
\* with.
C26_UsersAreIndependent ==
    [][ \A a \in TwoUsers : \A b \in TwoUsers \ {a} :
          ( \/ \E arg \in TakeArgs : take_quiz(a, arg)
            \/ \E i \in CallbackOptions : answer_callback(a, callback_data(i))
            \/ \E io \in ChatOutcomes : time_up_callback(a, io)
            \/ cancel_quiz(a)
            \/ \E j \in JobIds : jobs[j].user_id = a /\ time_up(j) )
          => /\ active_sessions'[b] = active_sessions[b]
             /\ LiveState(b)' = LiveState(b) ]_vars

\* both users are in a session; user 1's holds an expiry and user 2's an
\* answer, and user 1 has moved to the second question
C26_Witness ==
    /\ Registered(1) /\ Registered(2)
    /\ active_sessions[1] # active_sessions[2]
    /\ SessionOf(1).current_question_index = 1
    /\ SessionOf(2).current_question_index = 0
    /\ \E k \in 1..Len(SessionOf(1).answers) : IsExpiry(SessionOf(1), k)
    /\ \E k \in 1..Len(SessionOf(2).answers) : ~IsExpiry(SessionOf(2), k)

(***************************************************************************)
(* The countdown.  update_timer is a job-queue callback like time_up: it   *)
(* runs in the job queue's thread, and its guards (lines 379-386) and its  *)
(* message edit with the re-arming (lines 416-434) are separate steps.     *)
(* No handler of the module schedules the first tick; it comes from        *)
(* outside with data naming a user, the question that user's session is    *)
(* on and an end_time one time limit ahead.  A job carries remaining, the  *)
(* value int(end_time - time.time()) has when the job fires on time, and   *)
(* session, a history field naming the session it was first armed for.     *)
(***************************************************************************)
\* the time limits a question can have (admin_handlers line 249 and 401)
TimeLimits == 10..MaxTimeLimit

\* lines 392-404: the timer line of the message, as its wording and the
\* number of seconds it shows
time_text(remaining_seconds) ==
    IF remaining_seconds <= 5
    THEN IF remaining_seconds = 0
         THEN [ wording |-> "TIME'S UP!", seconds |-> 0 ]
         ELSE [ wording |-> "countdown", seconds |-> remaining_seconds ]
    ELSE [ wording |-> "Time remaining", seconds |-> remaining_seconds ]

\* line 428
next_update(remaining_seconds) ==
    IF remaining_seconds <= 10 THEN 1 ELSE 3

FreeTicks == { t \in TickIds : ticks[t].st \in {"free", "skipped"} }

ScheduleUpdateTimer(u, time_limit) ==
    /\ Registered(u)
    /\ get_current_question(SessionOf(u)) # 0
    /\ FreeTicks # {}
    /\ ticks' = [ ticks EXCEPT ![CHOOSE t \in FreeTicks : \A k \in FreeTicks : t <= k] =
                   [ st |-> "pending", user_id |-> u,
                     question_index |-> SessionOf(u).current_question_index,
                     remaining |-> time_limit,
                     session |-> active_sessions[u] ] ]
    /\ UNCHANGED <<active_sessions, sessions, results, jobs, last_reply,
                   continue_shown, admin_vars>>

\* lines 378-389: the guards and the reading of the clock
UpdateTimerEnter(t) ==
    /\ ticks[t].st = "pending"
    /\ IF ~Registered(ticks[t].user_id)
       THEN ticks' = [ ticks EXCEPT ![t] = [ IdleTick EXCEPT !.st = "skipped" ] ]
       ELSE IF SessionOf(ticks[t].user_id).current_question_index
                    # ticks[t].question_index
       THEN ticks' = [ ticks EXCEPT ![t] = [ IdleTick EXCEPT !.st = "skipped" ] ]
       ELSE ticks' = [ ticks EXCEPT ![t].st = "editing" ]
    /\ UNCHANGED <<active_sessions, sessions, results, jobs, last_reply,
                   continue_shown, admin_vars>>

\* update_timer scheduling the next tick outside the try block of lines
\* 416-434: a failed edit is followed by another tick
UpdateTimerEdit_rearming_after_error(t, delivered) ==
    /\ ticks[t].st = "editing"
    /\ IF ticks[t].remaining > 0
       THEN ticks' = [ ticks EXCEPT
                ![t].st = "pending",
                ![t].remaining =
                    IF @ - next_update(@) > 0 THEN @ - next_update(@) ELSE 0 ]
       ELSE ticks' = [ ticks EXCEPT ![t] = IdleTick ]
    /\ UNCHANGED <<active_sessions, sessions, results, jobs, last_reply,
                   continue_shown, admin_vars>>

\* lines 416-438: the message edit, which may raise, and the next tick;
\* the next job fires next_update seconds later
UpdateTimerEdit(t, delivered) ==
    /\ ticks[t].st = "editing"
    /\ IF delivered /\ ticks[t].remaining > 0
       THEN ticks' = [ ticks EXCEPT
                ![t].st = "pending",
                ![t].remaining =
                    IF @ - next_update(@) > 0 THEN @ - next_update(@) ELSE 0 ]
       ELSE ticks' = [ ticks EXCEPT ![t] = IdleTick ]
    /\ UNCHANGED <<active_sessions, sessions, results, jobs, last_reply,
                   continue_shown, admin_vars>>

update_timer(t) ==
    \/ UpdateTimerEnter(t)
    \/ \E delivered \in BOOLEAN : UpdateTimerEdit(t, delivered)

\* the session handlers on the two-question quiz q2, whose chat calls
\* succeed, and the countdown of the question the session is on
NextTimer ==
    \/ /\ \E u \in Users : take_quiz(u, "q2")
       /\ Elsewhere
    \/ /\ \E u \in Users, i \in CallbackOptions :
               answer_callback(u, callback_data(i))
       /\ Elsewhere
    \/ /\ \E u \in Users : time_up_callback(u, "ok")
       /\ Elsewhere
    \/ /\ \E u \in Users : cancel_quiz(u)
       /\ Elsewhere
    \/ /\ \E u \in Users :
            /\ Registered(u)
            /\ ScheduleTimeUp(u, SessionOf(u).current_question_index)
       /\ Elsewhere
    \/ /\ \E j \in JobIds : time_up(j)
       /\ Elsewhere
    \/ \E u \in Users, time_limit \in TimeLimits :
            ScheduleUpdateTimer(u, time_limit)
    \/ \E t \in TickIds : UpdateTimerEnter(t)
    \/ \E t \in TickIds, delivered \in BOOLEAN : UpdateTimerEdit(t, delivered)

SpecTimer == Init /\ [][NextTimer]_vars

\* C24: the tick cadence.  A tick that re-arms schedules its successor 3
\* seconds later while more than 10 seconds remain and 1 second later in
\* the last 10 seconds, so that no remaining-second value from 10 down to
\* 0 falls between two consecutive ticks of a chain, and remaining 0 has
\* the time's-up rendering, which no other value has.
C24_TickCadence ==
    /\ [](\A r \in 0..MaxTimeLimit :
            (time_text(r).wording = "TIME'S UP!") <=> (r = 0))
    /\ [][ \A t \in TickIds :
             (ticks[t].st = "editing" /\ ticks'[t].st = "pending") =>
                /\ ticks[t].remaining - ticks'[t].remaining
                      = IF ticks[t].remaining > 10 THEN 3 ELSE 1
                /\ \A v \in 0..10 :
                      ~(ticks'[t].remaining < v /\ v < ticks[t].remaining) ]_vars

\* C25: a tick is advisory.  No step of update_timer changes the registry
\* or a session; a tick re-arms only with time remaining and the session
\* it was armed for still registered and on the tick's question; and a
\* tick that fires after that session was removed or has moved on does
\* nothing and schedules nothing.
C25_TickIsAdvisory ==
    [][ \A t \in TickIds :
          LET u     == ticks[t].user_id
              armed == ticks[t].session
              current ==
                 /\ active_sessions[u] = armed
                 /\ sessions[armed].current_question_index = ticks[t].question_index
          IN /\ (ticks[t].st \in {"pending", "editing"} /\ ticks'[t] # ticks[t]) =>
                    UNCHANGED <<active_sessions, sessions, results>>
             /\ (ticks[t].st = "editing" /\ ticks'[t].st = "pending") =>
                    ticks[t].remaining > 0
             /\ (ticks[t].st = "pending" /\ ticks'[t] # ticks[t] /\ ~current) =>
                    ticks'[t].st \in {"free", "skipped"} ]_vars

(***************************************************************************)
(* The quiz-authoring wizard of handlers/admin_handlers.py and the other   *)
(* commands that write to the quiz store.  A message text is the sequence  *)
(* of its pieces, "|" and " " being pieces of their own.  The handlers are *)
(* chat handlers and atomic.  A handler's return value is the next state   *)
(* of the conversation it is registered in; returning None leaves the      *)
(* state as it is.  /create, /edittime and /import each start a            *)
(* conversation of their own.                                              *)
(***************************************************************************)
\* str.strip()
RECURSIVE strip(_)
strip(s) ==
    IF s # <<>> /\ Head(s) = " " THEN strip(Tail(s))
    ELSE IF s # <<>> /\ s[Len(s)] = " " THEN strip(SubSeq(s, 1, Len(s) - 1))
    ELSE s

\* str.split('|', maxsplit); maxsplit -1 splits at every bar
RECURSIVE split(_, _)
split(text, maxsplit) ==
    IF maxsplit = 0 \/ \A k \in 1..Len(text) : text[k] # "|"
    THEN << text >>
    ELSE LET bar == CHOOSE k \in 1..Len(text) :
                        text[k] = "|" /\ \A m \in 1..(k - 1) : text[m] # "|"
         IN << SubSeq(text, 1, bar - 1) >>
                \o split(SubSeq(text, bar + 1, Len(text)),
                         IF maxsplit > 0 THEN maxsplit - 1 ELSE maxsplit)

\* the numerals of the model and their values
IntLiterals ==
    { <<"0", 0>>, <<"1", 1>>, <<"3", 3>>, <<"4", 4>>, <<"-1", 0 - 1>>,
      <<"9", 9>>, <<"10", 10>>, <<"20", 20>>, <<"300", 300>>, <<"301", 301>> }

\* int(s): ok is FALSE where int raises ValueError
int(s) ==
    IF Len(strip(s)) = 1 /\ \E l \in IntLiterals : l[1] = strip(s)[1]
    THEN [ ok |-> TRUE,
           value |-> (CHOOSE l \in IntLiterals : l[1] = strip(s)[1])[2] ]
    ELSE [ ok |-> FALSE, value |-> 0 ]

\* a float: not-a-number, or a value in hundredths
NaN == [ nan |-> TRUE, hundredths |-> 0 ]

Float(hundredths) == [ nan |-> FALSE, hundredths |-> hundredths ]

FloatLiterals ==
    { <<"0", Float(0)>>, <<"0.25", Float(25)>>, <<"1", Float(100)>>,
      <<"1.5", Float(150)>>, <<"-0.5", Float(0 - 50)>>, <<"nan", NaN>> }

\* float(s): ok is FALSE where float raises ValueError
float(s) ==
    IF Len(strip(s)) = 1 /\ \E l \in FloatLiterals : l[1] = strip(s)[1]
    THEN [ ok |-> TRUE,
           value |-> (CHOOSE l \in FloatLiterals : l[1] = strip(s)[1])[2] ]
    ELSE IF int(s).ok
    THEN [ ok |-> TRUE, value |-> Float(100 * int(s).value) ]
    ELSE [ ok |-> FALSE, value |-> NaN ]

\* x < y on floats: every comparison with not-a-number is False
FloatLess(x, y) == ~x.nan /\ ~y.nan /\ x.hundredths < y.hundredths

\* d[k] = v and del d[k] on a dict
Put(d, k, v) == [ x \in DOMAIN d \cup {k} |-> IF x = k THEN v ELSE d[x] ]

Del(d, k) == [ x \in DOMAIN d \ {k} |-> d[x] ]

\* what a handler does besides its reply: its return value and the dict and
\* store it leaves
Handled(u, reply, returned, data, writes) ==
    /\ last_reply' = Reply(u, reply)
    /\ conversation' =
          IF returned = "None" THEN conversation
          ELSE IF returned = "EDITING_TIME"
          THEN [ conversation EXCEPT ![u].edittime = returned ]
          ELSE IF returned = "IMPORTING"
          THEN [ conversation EXCEPT ![u].import = returned ]
          ELSE [ conversation EXCEPT ![u].create = returned ]
    /\ quiz_creation_data' = data
    /\ store_writes' = writes
    /\ UNCHANGED <<active_sessions, sessions, results, jobs, continue_shown,
                   timer_vars>>

\* utils.database.add_quiz, update_question_time_limit and
\* utils.quiz_manager.import_quiz_from_file: the store keeps what it is
\* handed; user_id is a history field naming the caller
StoreWrite(op, user_id, what) ==
    Append(store_writes, [ op |-> op, user_id |-> user_id, what |-> what ])

\* models.quiz.Quiz and Question
Quiz(title, description, creator_id, time_limit, negative_marking_factor) ==
    [ title |-> title, description |-> description, creator_id |-> creator_id,
      time_limit |-> time_limit,
      negative_marking_factor |-> negative_marking_factor,
      questions |-> <<>> ]

Question(text, options, correct_option) ==
    [ text |-> text, options |-> options, correct_option |-> correct_option ]

\* create_quiz without the check of lines 94-96
create_quiz_unchecked(u) ==
    Handled(u, "lets_create", "ADDING_QUESTION",
            Put(quiz_creation_data, u, [ questions |-> <<>> ]), store_writes)

\* /create
create_quiz(u) ==
    IF u \notin ADMIN_USERS
    THEN Handled(u, "only_admins", "None", quiz_creation_data, store_writes)
    ELSE Handled(u, "lets_create", "ADDING_QUESTION",
                 Put(quiz_creation_data, u, [ questions |-> <<>> ]), store_writes)

\* a text while the wizard collects the title line and the questions
add_question(u, text) ==
    IF u \notin DOMAIN quiz_creation_data
    THEN Handled(u, "start_again", "ADDING_QUESTION", quiz_creation_data, store_writes)
    ELSE IF "title" \notin DOMAIN quiz_creation_data[u]
    THEN \* lines 125-159
         LET parts == split(text, 1)
         IN IF Len(parts) < 2
            THEN Handled(u, "title_format", "ADDING_QUESTION",
                         quiz_creation_data, store_writes)
            ELSE Handled(u, "title_set", "ADDING_QUESTION",
                    Put(quiz_creation_data, u,
                        Put(Put(quiz_creation_data[u], "title", strip(parts[1])),
                            "description", strip(parts[2]))),
                    store_writes)
    ELSE \* lines 161-207
         LET parts          == split(text, 0 - 1)
             correct_option == int(parts[6])
         IN IF Len(parts) < 6
            THEN Handled(u, "question_format", "ADDING_QUESTION",
                         quiz_creation_data, store_writes)
            ELSE IF ~correct_option.ok
            THEN Handled(u, "error_processing", "ADDING_QUESTION",
                         quiz_creation_data, store_writes)
            ELSE IF correct_option.value < 0 \/ correct_option.value > 3
            THEN Handled(u, "correct_option_range", "ADDING_QUESTION",
                         quiz_creation_data, store_writes)
            ELSE IF "questions" \notin DOMAIN quiz_creation_data[u]
            THEN \* KeyError at line 191
                 Handled(u, "error_processing", "ADDING_QUESTION",
                         quiz_creation_data, store_writes)
            ELSE /\ Len(quiz_creation_data[u].questions) < MaxQuestions
                 /\ Handled(u, "question_added", "ADDING_QUESTION",
                        Put(quiz_creation_data, u,
                            Put(quiz_creation_data[u], "questions",
                                Append(quiz_creation_data[u].questions,
                                    [ text |-> strip(parts[1]),
                                      options |-> [ i \in 1..4 |-> strip(parts[i + 1]) ],
                                      correct_option |-> correct_option.value ]))),
                        store_writes)

\* /done
finalize_quiz(u) ==
    IF u \notin DOMAIN quiz_creation_data
    THEN Handled(u, "start_again", "None", quiz_creation_data, store_writes)
    ELSE IF \/ "questions" \notin DOMAIN quiz_creation_data[u]
            \/ Len(quiz_creation_data[u].questions) = 0
    THEN Handled(u, "no_questions_yet", "ADDING_QUESTION",
                 quiz_creation_data, store_writes)
    ELSE Handled(u, "enter_time_limit", "SETTING_TIME",
                 quiz_creation_data, store_writes)

\* a text while the wizard asks for the time limit
set_quiz_time(u, text) ==
    IF u \notin DOMAIN quiz_creation_data
    THEN Handled(u, "start_again", "None", quiz_creation_data, store_writes)
    ELSE LET time_limit == int(text)
         IN IF ~time_limit.ok
            THEN Handled(u, "valid_number", "SETTING_TIME",
                         quiz_creation_data, store_writes)
            ELSE IF time_limit.value < 10 \/ time_limit.value > 300
            THEN Handled(u, "time_limit_range", "SETTING_TIME",
                         quiz_creation_data, store_writes)
            ELSE Handled(u, "time_limit_set", "SETTING_NEGATIVE_MARKING",
                    Put(quiz_creation_data, u,
                        Put(quiz_creation_data[u], "time_limit", time_limit.value)),
                    store_writes)

\* the quiz of lines 305-310
BuiltQuiz(u, creation_data, negative_marking) ==
    [ Quiz(creation_data.title, creation_data.description, u,
           creation_data.time_limit, negative_marking)
      EXCEPT !.questions =
        [ i \in 1..Len(creation_data.questions) |->
            Question(creation_data.questions[i].text,
                     creation_data.questions[i].options,
                     creation_data.questions[i].correct_option) ] ]

\* a text while the wizard asks for the negative marking factor
set_negative_marking(u, text) ==
    IF u \notin DOMAIN quiz_creation_data
    THEN Handled(u, "start_again", "None", quiz_creation_data, store_writes)
    ELSE LET negative_marking == float(text)
         IN IF ~negative_marking.ok
            THEN Handled(u, "valid_number", "SETTING_NEGATIVE_MARKING",
                         quiz_creation_data, store_writes)
            ELSE IF \/ FloatLess(negative_marking.value, Float(0))
                    \/ FloatLess(Float(100), negative_marking.value)
            THEN Handled(u, "negative_marking_range", "SETTING_NEGATIVE_MARKING",
                         quiz_creation_data, store_writes)
            ELSE IF {"title", "description", "time_limit", "questions"}
                        \subseteq DOMAIN quiz_creation_data[u]
            THEN /\ Len(store_writes) < MaxWrites
                 /\ Handled(u, "quiz_created", "None",
                        Del(quiz_creation_data, u),
                        StoreWrite("add_quiz", u,
                            BuiltQuiz(u, quiz_creation_data[u],
                                      negative_marking.value)))
            ELSE \* KeyError at lines 300-302 or 308, caught at line 332
                 Handled(u, "valid_number", "SETTING_NEGATIVE_MARKING",
                         quiz_creation_data, store_writes)

\* /edittime with its arguments
edit_quiz_time(u, args) ==
    IF u \notin ADMIN_USERS
    THEN Handled(u, "only_admins", "None", quiz_creation_data, store_writes)
    ELSE IF args = <<>>
    THEN Handled(u, "provide_quiz_id", "None", quiz_creation_data, store_writes)
    ELSE IF get_quiz(args[1]).id = ""
    THEN Handled(u, "not_found", "None", quiz_creation_data, store_writes)
    ELSE Handled(u, "enter_new_time_limit", "EDITING_TIME",
            Put(quiz_creation_data, u,
                [ quiz_id |-> args[1], current_time |-> <<"time_limit", args[1]>> ]),
            store_writes)

\* /editquestiontime with its arguments
edit_question_time(u, args) ==
    IF u \notin ADMIN_USERS
    THEN Handled(u, "only_admins", "None", quiz_creation_data, store_writes)
    ELSE IF Len(args) < 3
    THEN Handled(u, "provide_arguments", "None", quiz_creation_data, store_writes)
    ELSE LET question_index == int(<<args[2]>>)
             time_limit     == int(<<args[3]>>)
         IN IF ~question_index.ok \/ ~time_limit.ok
            THEN Handled(u, "error_processing", "None",
                         quiz_creation_data, store_writes)
            ELSE IF time_limit.value < 10 \/ time_limit.value > 300
            THEN Handled(u, "time_limit_range", "None",
                         quiz_creation_data, store_writes)
            ELSE IF get_quiz(args[1]).id = ""
            THEN Handled(u, "not_found", "None", quiz_creation_data, store_writes)
            ELSE IF \/ question_index.value < 0
                    \/ question_index.value >= NumQuestions(args[1])
            THEN Handled(u, "invalid_question_index", "None",
                         quiz_creation_data, store_writes)
            ELSE /\ Len(store_writes) < MaxWrites
                 /\ Handled(u, "time_limit_updated", "None", quiz_creation_data,
                        StoreWrite("update_question_time_limit", u,
                            <<args[1], question_index.value, time_limit.value>>))

\* /import, or a file sent after it: document is "none", the name of a
\* file that is not JSON, or of one that import_quiz_from_file accepts
import_quiz(u, document) ==
    IF u \notin ADMIN_USERS
    THEN Handled(u, "only_admins", "None", quiz_creation_data, store_writes)
    ELSE IF document = "none"
    THEN Handled(u, "upload_json", "IMPORTING", quiz_creation_data, store_writes)
    ELSE IF document # "quiz.json"
    THEN Handled(u, "upload_json", "IMPORTING", quiz_creation_data, store_writes)
    ELSE /\ Len(store_writes) < MaxWrites
         /\ Handled(u, "quiz_imported", "None", quiz_creation_data,
                StoreWrite("import_quiz_from_file", u, document))

(***************************************************************************)
(* What the operators send.                                                *)
(***************************************************************************)
QuestionLine(correct_option) ==
    <<"Q", "|", "A", "|", "B", "|", "C", "|", "D", "|", " ", correct_option>>

Texts ==
    { <<"T", " ", "|", " ", "D">>, <<"T">>,
      QuestionLine("1"), QuestionLine("4"), QuestionLine("x"),
      QuestionLine("1") \o <<"|", "E">>, <<"Q", "|", "A", "|", "B">>,
      <<"9">>, <<"10">>, <<"300">>, <<"301">>,
      <<"0">>, <<"0.25">>, <<"1">>, <<"1.5">>, <<"-0.5">>, <<"nan">> }

EditTimeArgs == { <<>>, <<"q1">>, <<"bogus">> }

EditQuestionTimeArgs ==
    { <<"q1">>, <<"q1", "0", "20">>, <<"q1", "0", "9">>, <<"q1", "1", "20">>,
      <<"bogus", "0", "20">>, <<"q1", "x", "20">> }

Documents == {"none", "notes.txt", "quiz.json"}

\* the handlers as the conversation of /create routes the updates: a text
\* goes to the handler of the state the conversation is in, /done to
\* finalize_quiz while questions are collected; the commands are handled
\* in every state
NextWizard ==
    \/ \E u \in Operators : create_quiz(u)
    \/ \E u \in Operators, text \in Texts :
          conversation[u].create = "ADDING_QUESTION" /\ add_question(u, text)
    \/ \E u \in Operators :
          conversation[u].create = "ADDING_QUESTION" /\ finalize_quiz(u)
    \/ \E u \in Operators, text \in Texts :
          conversation[u].create = "SETTING_TIME" /\ set_quiz_time(u, text)
    \/ \E u \in Operators, text \in Texts :
          /\ conversation[u].create = "SETTING_NEGATIVE_MARKING"
          /\ set_negative_marking(u, text)
    \/ \E u \in Operators, args \in EditTimeArgs : edit_quiz_time(u, args)
    \/ \E u \in Operators, args \in EditQuestionTimeArgs :
          edit_question_time(u, args)
    \/ \E u \in Operators, document \in Documents : import_quiz(u, document)

SpecWizard == Init /\ [][NextWizard]_vars

\* the inputs that get a quiz through the wizard
AcceptedTexts ==
    { <<"T", " ", "|", " ", "D">>, QuestionLine("1"), <<"10">>, <<"0.25">> }

\* the handlers called in any order, whatever state a conversation is in
NextCalls ==
    \/ \E u \in Operators : create_quiz(u)
    \/ \E u \in Operators, text \in AcceptedTexts : add_question(u, text)
    \/ \E u \in Operators : finalize_quiz(u)
    \/ \E u \in Operators, text \in AcceptedTexts : set_quiz_time(u, text)
    \/ \E u \in Operators, text \in AcceptedTexts : set_negative_marking(u, text)
    \/ \E u \in Operators, args \in EditTimeArgs : edit_quiz_time(u, args)
    \/ \E u \in Operators, args \in {<<"q1">>, <<"q1", "0", "20">>} :
          edit_question_time(u, args)
    \/ \E u \in Operators, document \in Documents : import_quiz(u, document)

SpecCalls == Init /\ [][NextCalls]_vars

\* C28: only the users in ADMIN_USERS can cause a quiz to be added or
\* modified: whatever sequence of create_quiz, add_question,
\* finalize_quiz, set_quiz_time, set_negative_marking, edit_quiz_time,
\* edit_question_time and import_quiz calls a user outside ADMIN_USERS
\* makes, that user never has an entry in quiz_creation_data and no call
\* of that user writes to the store.
C28_OnlyAdminsWrite ==
    \A u \in Operators \ ADMIN_USERS :
        /\ u \notin DOMAIN quiz_creation_data
        /\ \A k \in 1..Len(store_writes) : store_writes[k].user_id # u

\* the admin is in the wizard and has written to the store, and user 2,
\* who is no admin, has had add_question answer and was last told to
\* start again
C28_Witness ==
    /\ 2 \notin ADMIN_USERS
    /\ conversation[2].create = "ADDING_QUESTION"
    /\ last_reply = Reply(2, "start_again")
    /\ 1 \in DOMAIN quiz_creation_data
    /\ Len(store_writes) = 1

\* C29: every quiz the wizard hands to add_quiz has a title and a
\* description, at least one question, four options and a correct option
\* in 0..3 in every question, a time limit in 10..300 and a negative
\* marking factor in [0, 1].
C29_WizardQuizzesAreValid ==
    \A k \in 1..Len(store_writes) :
        store_writes[k].op = "add_quiz" =>
            LET quiz == store_writes[k].what
            IN /\ {"title", "description"} \subseteq DOMAIN quiz
               /\ Len(quiz.questions) >= 1
               /\ \A i \in 1..Len(quiz.questions) :
                    /\ Len(quiz.questions[i].options) = 4
                    /\ quiz.questions[i].correct_option \in 0..3
               /\ quiz.time_limit \in 10..300
               /\ ~quiz.negative_marking_factor.nan
               /\ quiz.negative_marking_factor.hundredths \in 0..100

\* the fields of a question line
Fields(text) ==
    Cardinality({ k \in 1..Len(text) : text[k] = "|" }) + 1

\* the inputs the wizard is to refuse
InvalidTitle(text) == Fields(text) < 2

InvalidQuestion(text) ==
    \/ Fields(text) < 6
    \/ text \notin { QuestionLine(o) \o rest :
                        o \in {"0", "1", "2", "3"}, rest \in {<<>>, <<"|", "E">>} }

InvalidTime(text) == text \notin { <<"10">>, <<"20">>, <<"300">> }

InvalidNegativeMarking(text) == text \notin { <<"0">>, <<"0.25">>, <<"1">> }

\* C30: an invalid input keeps the wizard in the step it is in and leaves
\* quiz_creation_data and the store unchanged: a title line without a
\* bar, a question line with fewer than 6 fields or a correct option that
\* is not 0..3, /done with no question, a time limit that is not a number
\* in 10..300, a negative marking factor that is not a number in [0, 1].
C30_InvalidInputChangesNothing ==
    [][ \A u \in DOMAIN quiz_creation_data :
          LET step == conversation[u].create
              data == quiz_creation_data[u]
              Refused ==
                 /\ conversation'[u].create = step
                 /\ UNCHANGED <<quiz_creation_data, store_writes>>
          IN /\ \A text \in Texts :
                  /\ ( /\ step = "ADDING_QUESTION"
                       /\ add_question(u, text)
                       /\ IF "title" \in DOMAIN data THEN InvalidQuestion(text)
                          ELSE InvalidTitle(text) ) => Refused
                  /\ ( /\ step = "SETTING_TIME"
                       /\ set_quiz_time(u, text)
                       /\ InvalidTime(text) ) => Refused
                  /\ ( /\ step = "SETTING_NEGATIVE_MARKING"
                       /\ set_negative_marking(u, text)
                       /\ InvalidNegativeMarking(text) ) => Refused
             /\ ( /\ step = "ADDING_QUESTION"
                  /\ finalize_quiz(u)
                  /\ "questions" \in DOMAIN data => data.questions = <<>> )
                    => Refused ]_vars

(***************************************************************************)
(* The countdown under the job queue's scheduling.  The queue runs every   *)
(* job that is due, so a pending tick fires, and edit_message_text either  *)
(* returns or raises, so a tick that has read the clock finishes; nothing  *)
(* promises that an edit succeeds.                                         *)
(***************************************************************************)
ArmedTicks == { t \in TickIds : ticks[t].st \in {"pending", "editing"} }

TickFairness ==
    \A t \in TickIds :
        /\ WF_vars(UpdateTimerEnter(t))
        /\ WF_vars(\E delivered \in BOOLEAN : UpdateTimerEdit(t, delivered))

SpecTimerFair == SpecTimer /\ TickFairness

\* C31: the tick chain armed for a question terminates.  A firing of
\* update_timer arms no tick besides its own successor; it arms that
\* successor only with strictly less time remaining than it was armed with
\* (so never at 0), and not when the user has no session, the session is on
\* another question index, or the message edit failed; and every armed tick
\* is eventually idle again.
C31_TickChainTerminates ==
    /\ [][ \A t \in TickIds :
             LET fires == \/ UpdateTimerEnter(t)
                          \/ \E delivered \in BOOLEAN : UpdateTimerEdit(t, delivered)
                 gone  == ~Registered(ticks[t].user_id)
                 moved == /\ Registered(ticks[t].user_id)
                          /\ SessionOf(ticks[t].user_id).current_question_index
                                # ticks[t].question_index
             IN /\ fires =>
                     /\ ArmedTicks' \subseteq ArmedTicks
                     /\ \A k \in TickIds \ {t} : ticks'[k] = ticks[k]
                /\ (ticks[t].st = "editing" /\ ticks'[t].st = "pending") =>
                     /\ 0 <= ticks'[t].remaining
                     /\ ticks'[t].remaining < ticks[t].remaining
                /\ (UpdateTimerEnter(t) /\ (gone \/ moved)) =>
                     t \notin ArmedTicks'
                /\ UpdateTimerEdit(t, FALSE) => t \notin ArmedTicks' ]_vars
    /\ \A t \in TickIds : (t \in ArmedTicks) ~> (t \notin ArmedTicks)

\* the tick that fires at the deadline, at the end of a chain of ticks
C31_Witness ==
    \E t \in TickIds :
        /\ ticks[t].st = "editing"
        /\ ticks[t].remaining = 0

\* C32: an answer that arrives while the user's session is registered but
\* has no current question (its index is the number of questions) is
\* answered "This question is no longer active" and records nothing: the
\* session's answers and index, the registry and the result store are
\* unchanged.
C32_AnswerAfterLastQuestionIsNoOp ==
    [][ \A u \in Users, i \in CallbackOptions :
          ( /\ Registered(u)
            /\ SessionOf(u).current_question_index = NumQuestions(SessionOf(u).quiz)
            /\ answer_callback(u, callback_data(i)) )
          => /\ last_reply' = Reply(u, "no_longer_active")
             /\ sessions'[active_sessions[u]].answers = SessionOf(u).answers
             /\ sessions'[active_sessions[u]].current_question_index
                    = SessionOf(u).current_question_index
             /\ UNCHANGED <<active_sessions, sessions, results>> ]_vars

\* the result message of a finished attempt was rejected, the session is
\* still registered past its last question, and a button of its keyboard
\* was pressed
C32_Witness ==
    \E u \in Users :
        /\ Registered(u)
        /\ SessionOf(u).current_question_index = NumQuestions(SessionOf(u).quiz)
        /\ SessionOf(u).answers # <<>>
        /\ results # <<>>
        /\ last_reply = Reply(u, "no_longer_active")

=============================================================================
